---- MODULE Spec2Model ----
(***************************************************************************)
(* A model of usedump-rs (src/src/used_item.rs): the use-tree expander,    *)
(* the per-file accumulator (UsedItemResolver) and the project walker      *)
(* (list_used_items_in_cargo).                                             *)
(*                                                                         *)
(* The analysis collaborator (ra_ide / ra_db / ra_batch) is an input: a    *)
(* leaf of a use tree carries the answer goto_definition gives at the      *)
(* leaf's end offset, a file carries the answer of parse, a file of a      *)
(* source root carries its relative path.                                  *)
(***************************************************************************)
EXTENDS Integers, Sequences, FiniteSets

\* ------------------------------------------------------------------ bounds

\* Names of declarations are 1 .. MaxName (text, compared as the numbers are).
MaxName == 2
\* Navigation targets in one goto_definition answer of a leaf that may carry
\* any syntax kind.
MaxInfo == 2
\* Size of a use item of the expander's inputs: a leaf counts one, or the
\* number of navigation targets it resolves to if that is more; a list counts
\* one more than its trees.
MaxSize == 4
\* Size of a source file of the accumulator's inputs: the sizes of its items
\* (an item that is no use item, or has no tree, counts one).
MaxFileSize == 3
\* Source roots of a project of the walker's inputs.
MaxRoots == 2

\* ------------------------------------------------------- the data model

SyntaxKinds ==
    { "SOURCE_FILE", "TRAIT_DEF", "STRUCT_DEF", "ENUM_DEF", "FN_DEF",
      "CONST_DEF", "MACRO_CALL", "MODULE", "TYPE_ALIAS_DEF", "STATIC_DEF" }

UsedItemKind ==
    { "Module", "Trait", "Struct", "Enum", "Fn", "Const", "Macro", "Other" }

\* #[derive(PartialOrd, Ord)] on the enum: declaration order.
KindRank(k) ==
    CASE k = "Module" -> 0
      [] k = "Trait"  -> 1
      [] k = "Struct" -> 2
      [] k = "Enum"   -> 3
      [] k = "Fn"     -> 4
      [] k = "Const"  -> 5
      [] k = "Macro"  -> 6
      [] OTHER        -> 7

from_syntax_kind_Swapped(syntax_kind) ==
    CASE syntax_kind = "SOURCE_FILE" -> "Module"
      [] syntax_kind = "TRAIT_DEF"   -> "Trait"
      [] syntax_kind = "STRUCT_DEF"  -> "Enum"
      [] syntax_kind = "ENUM_DEF"    -> "Struct"
      [] syntax_kind = "FN_DEF"      -> "Fn"
      [] syntax_kind = "CONST_DEF"   -> "Const"
      [] syntax_kind = "MACRO_CALL"  -> "Macro"
      [] OTHER                       -> "Other"

from_syntax_kind(syntax_kind) ==
    CASE syntax_kind = "SOURCE_FILE" -> "Module"
      [] syntax_kind = "TRAIT_DEF"   -> "Trait"
      [] syntax_kind = "STRUCT_DEF"  -> "Struct"
      [] syntax_kind = "ENUM_DEF"    -> "Enum"
      [] syntax_kind = "FN_DEF"      -> "Fn"
      [] syntax_kind = "CONST_DEF"   -> "Const"
      [] syntax_kind = "MACRO_CALL"  -> "Macro"
      [] OTHER                       -> "Other"

Names == 1 .. MaxName

\* A NavigationTarget, as far as the program reads it: name() and kind().
NavigationTargets == [name : Names, kind : SyntaxKinds]

from_navigation_target(navigation_target) ==
    [name |-> navigation_target.name,
     kind |-> from_syntax_kind(navigation_target.kind)]

\* #[derive(PartialOrd, Ord)] on UsedItem: name first, then kind.
ItemLess(a, b) ==
    \/ a.name < b.name
    \/ a.name = b.name /\ KindRank(a.kind) < KindRank(b.kind)

\* Option<Vec<UsedItem>>
NoneVec == [some |-> FALSE, v |-> <<>>]
SomeVec(v) == [some |-> TRUE, v |-> v]

\* ------------------------------------------------- the analysis' answers

\* Cancelable<Option<RangeInfo<Vec<NavigationTarget>>>> of goto_definition.
AnswerErr == [tag |-> "Err", info |-> <<>>]
AnswerNone == [tag |-> "None", info |-> <<>>]
AnswerSome(info) == [tag |-> "Some", info |-> info]

\* A UseTree: a leaf path, with the answer at its end offset, or a
\* use_tree_list of UseTrees.
Leaf(answer) == [is_list |-> FALSE, def |-> answer, trees |-> <<>>]
Group(trees) == [is_list |-> TRUE, def |-> AnswerNone, trees |-> trees]

\* A ModuleItem: a UseItem (with or without a use_tree) or any other item.
OtherItem == [is_use |-> FALSE, has_tree |-> FALSE, tree |-> Group(<<>>)]
UseItemNoTree == [is_use |-> TRUE, has_tree |-> FALSE, tree |-> Group(<<>>)]
UseItem(tree) == [is_use |-> TRUE, has_tree |-> TRUE, tree |-> tree]

\* ---------------------------------------------------------- the expander

goto_definition(use_tree) == use_tree.def

Append_items_Prepend(result, items) == items \o result

\* result.append(&mut items)
Append_items(result, items) == result \o items

RECURSIVE MapTargets(_)
MapTargets(info) ==
    IF info = <<>> THEN <<>>
    ELSE <<from_navigation_target(Head(info))>> \o MapTargets(Tail(info))

ResolveLeaf_NoneAsEmpty(use_tree) ==
    LET answer == goto_definition(use_tree)
    IN  IF answer.tag = "Some" THEN SomeVec(MapTargets(answer.info))
        ELSE SomeVec(<<>>)

\* The None arm of used_items_in_use_tree: the leaf is resolved at its end.
ResolveLeaf(use_tree) ==
    LET answer == goto_definition(use_tree)
    IN  IF answer.tag = "Some" THEN SomeVec(MapTargets(answer.info))
        ELSE NoneVec

RECURSIVE used_items_in_use_tree(_)
RECURSIVE ExpandList(_, _)

RECURSIVE ExpandList_Abort(_, _)
ExpandList_Abort(use_trees, result) ==
    IF use_trees = <<>> THEN result
    ELSE LET r == used_items_in_use_tree(Head(use_trees))
         IN  IF r.some
             THEN ExpandList_Abort(Tail(use_trees), Append_items(result, r.v))
             ELSE result

\* The loop of the Some arm over use_tree_list.use_trees(), from `result`.
ExpandList(use_trees, result) ==
    IF use_trees = <<>> THEN result
    ELSE LET r == used_items_in_use_tree(Head(use_trees))
         IN  ExpandList(Tail(use_trees),
                        IF r.some THEN Append_items(result, r.v) ELSE result)

RECURSIVE LeafChildren(_)
LeafChildren(use_trees) ==
    IF use_trees = <<>> THEN <<>>
    ELSE LET r == ResolveLeaf(Head(use_trees))
         IN  (IF ~Head(use_trees).is_list /\ r.some THEN r.v ELSE <<>>)
             \o LeafChildren(Tail(use_trees))

used_items_in_use_tree_OneLevel(use_tree) ==
    IF use_tree.is_list
    THEN SomeVec(LeafChildren(use_tree.trees))
    ELSE ResolveLeaf(use_tree)

used_items_in_use_tree(use_tree) ==
    IF use_tree.is_list
    THEN SomeVec(ExpandList(use_tree.trees, <<>>))
    ELSE ResolveLeaf(use_tree)

used_items_in_use_item(use_item) ==
    IF ~use_item.has_tree THEN NoneVec
    ELSE used_items_in_use_tree(use_item.tree)

\* ------------------------------------------------------- the accumulator

\* UsedItemMap::default(): every BTreeSet empty. A BTreeSet is the sequence
\* of its elements in ascending order.
DefaultMap ==
    [modules |-> <<>>, traits |-> <<>>, structs |-> <<>>, enums |-> <<>>,
     fns |-> <<>>, consts |-> <<>>, macros |-> <<>>, others |-> <<>>]

Fields ==
    { "modules", "traits", "structs", "enums", "fns", "consts", "macros",
      "others" }

Contains(set, item) == \E i \in 1 .. Len(set) : set[i] = item

BTreeSetInsert_NoDedup(set, item) ==
    LET lo == SelectSeq(set, LAMBDA y : ItemLess(y, item))
        hi == SelectSeq(set, LAMBDA y : ~ItemLess(y, item))
    IN  lo \o <<item>> \o hi

\* BTreeSet::insert: an element equal to `item` stays, nothing is added.
BTreeSetInsert(set, item) ==
    IF Contains(set, item) THEN set
    ELSE LET lo == SelectSeq(set, LAMBDA y : ItemLess(y, item))
             hi == SelectSeq(set, LAMBDA y : ItemLess(item, y))
         IN  lo \o <<item>> \o hi

InsertByKind_StructAsTrait(map, item) ==
    CASE item.kind = "Module" -> [map EXCEPT !.modules = BTreeSetInsert(@, item)]
      [] item.kind = "Trait"  -> [map EXCEPT !.traits = BTreeSetInsert(@, item)]
      [] item.kind = "Struct" -> [map EXCEPT !.traits = BTreeSetInsert(@, item)]
      [] item.kind = "Enum"   -> [map EXCEPT !.enums = BTreeSetInsert(@, item)]
      [] item.kind = "Fn"     -> [map EXCEPT !.fns = BTreeSetInsert(@, item)]
      [] item.kind = "Const"  -> [map EXCEPT !.consts = BTreeSetInsert(@, item)]
      [] item.kind = "Macro"  -> [map EXCEPT !.macros = BTreeSetInsert(@, item)]
      [] OTHER                -> [map EXCEPT !.others = BTreeSetInsert(@, item)]

\* The match of add_imported_items on item.kind.
InsertByKind(map, item) ==
    CASE item.kind = "Module" -> [map EXCEPT !.modules = BTreeSetInsert(@, item)]
      [] item.kind = "Trait"  -> [map EXCEPT !.traits = BTreeSetInsert(@, item)]
      [] item.kind = "Struct" -> [map EXCEPT !.structs = BTreeSetInsert(@, item)]
      [] item.kind = "Enum"   -> [map EXCEPT !.enums = BTreeSetInsert(@, item)]
      [] item.kind = "Fn"     -> [map EXCEPT !.fns = BTreeSetInsert(@, item)]
      [] item.kind = "Const"  -> [map EXCEPT !.consts = BTreeSetInsert(@, item)]
      [] item.kind = "Macro"  -> [map EXCEPT !.macros = BTreeSetInsert(@, item)]
      [] item.kind = "Other"  -> [map EXCEPT !.others = BTreeSetInsert(@, item)]

RECURSIVE add_imported_items(_, _)
add_imported_items(map, used_items_vec) ==
    IF used_items_vec = <<>> THEN map
    ELSE add_imported_items(InsertByKind(map, Head(used_items_vec)),
                            Tail(used_items_vec))

item_to_use_item(item) == item.is_use

\* One iteration of the loop of used_items over source_file.items().
UseItemStep(map, item) ==
    IF ~item_to_use_item(item) THEN map
    ELSE LET imported_items == used_items_in_use_item(item)
         IN  IF imported_items.some
             THEN add_imported_items(map, imported_items.v)
             ELSE map

RECURSIVE UseItemLoop(_, _)
UseItemLoop(map, items) ==
    IF items = <<>> THEN map
    ELSE UseItemLoop(UseItemStep(map, Head(items)), Tail(items))

\* What analysis.parse(file_id) answers: an error, or the file's items.
ParseError == [ok |-> FALSE, items |-> <<>>]
Parsed(items) == [ok |-> TRUE, items |-> items]

used_items(parse) ==
    IF ~parse.ok THEN DefaultMap
    ELSE UseItemLoop(DefaultMap, parse.items)

\* ----------------------------------------------------- the input domains

\* The syntax kinds of the targets the sized inputs resolve to.
TargetKinds == { "STRUCT_DEF", "FN_DEF" }

SizedTargets == [name : Names, kind : TargetKinds]

LeavesOfSize(n) ==
    (IF n = 1
     THEN { Leaf(AnswerErr), Leaf(AnswerNone), Leaf(AnswerSome(<<>>)) }
     ELSE {})
    \cup { Leaf(AnswerSome(info)) : info \in [1 .. n -> SizedTargets] }

\* The sequences of elements of sized[1], sized[2], ... whose sizes add up to
\* each of 1 .. Len(sized), built from the smaller sums in `sums`.
RECURSIVE SizedSeqs(_, _)
SizedSeqs(sized, sums) ==
    IF Len(sums) = Len(sized) THEN sums
    ELSE LET n == Len(sums) + 1
             Rest(m) == IF m = 0 THEN { <<>> } ELSE sums[m]
         IN  SizedSeqs(sized,
                       Append(sums,
                              { <<p[1]>> \o p[2] :
                                  p \in UNION { sized[k] \X Rest(n - k)
                                                : k \in 1 .. n } }))

\* The use trees of each size 1 .. n, from those of the sizes below
\* Len(trees) + 1 in `trees`: a leaf, or a list of trees of the sizes below.
RECURSIVE SizedTrees(_, _)
SizedTrees(n, trees) ==
    IF Len(trees) = n THEN trees
    ELSE LET size == Len(trees) + 1
             lists == IF size = 1 THEN { <<>> }
                      ELSE SizedSeqs(trees, <<>>)[size - 1]
         IN  SizedTrees(n,
                        Append(trees,
                               LeavesOfSize(size)
                               \cup { Group(x) : x \in lists }))

\* The use trees of each size 1 .. MaxSize.
ExpanderTrees == SizedTrees(MaxSize, <<>>)

\* The use items with a tree of each size 1 .. MaxFileSize.
FileUseItems ==
    LET trees == SizedTrees(MaxFileSize, <<>>)
    IN  [n \in 1 .. MaxFileSize |-> { UseItem(t) : t \in trees[n] }]

RECURSIVE TreeSize(_)
RECURSIVE TreesSize(_)
TreesSize(use_trees) ==
    IF use_trees = <<>> THEN 0
    ELSE TreeSize(Head(use_trees)) + TreesSize(Tail(use_trees))

TreeSize(use_tree) ==
    IF use_tree.is_list THEN 1 + TreesSize(use_tree.trees)
    ELSE IF Len(use_tree.def.info) > 1 THEN Len(use_tree.def.info) ELSE 1

RECURSIVE FileSize(_)
FileSize(items) ==
    IF items = <<>> THEN 0
    ELSE (IF Head(items).has_tree THEN TreeSize(Head(items).tree) ELSE 1)
         + FileSize(Tail(items))

\* ------------------------------------------------------------ the state

VARIABLES
    pc,             \* where the modelled call stands
    use_item,       \* the UseItem given to used_items_in_use_item
    imported,       \* what used_items_in_use_item returned
    source_file,    \* what analysis.parse answered, with the items that
                    \* source_file.items() has yielded so far
    used_item_map,  \* UsedItemResolver.used_item_map
    project,        \* what load_cargo loads: the source roots, their files
    roots_left,     \* the source roots the outer loop has yet to yield
    root,           \* the source root the inner loop walks
    files_left,     \* the files of `root` that walk() has yet to yield
    crate_map,      \* map.source_map
    visited         \* the files visited so far, in the order of the visits

resolver_vars == <<use_item, imported, source_file, used_item_map>>

walker_vars == <<project, roots_left, root, files_left, crate_map, visited>>

vars == <<pc, resolver_vars, walker_vars>>

\* BTreeMap::new(), and the state of a walker that is not running.
EmptyCrateMap == [p \in {} |-> DefaultMap]

NoWalk ==
    /\ project = <<>>
    /\ roots_left = {}
    /\ root = 0
    /\ files_left = {}
    /\ crate_map = EmptyCrateMap
    /\ visited = <<>>

\* ------------------------------------- used_items_in_use_item, one call

InitExpander ==
    /\ pc = "use_item"
    /\ \/ use_item = UseItemNoTree
       \/ \E n \in 1 .. MaxSize : \E t \in ExpanderTrees[n] :
            use_item = UseItem(t)
       \* a leaf whose answer holds up to MaxInfo targets of any syntax kind
       \/ \E n \in 0 .. MaxInfo : \E info \in [1 .. n -> NavigationTargets] :
            use_item = UseItem(Leaf(AnswerSome(info)))
    /\ imported = NoneVec
    /\ source_file = ParseError
    /\ used_item_map = DefaultMap
    /\ NoWalk

ExpandUseItem ==
    /\ pc = "use_item"
    /\ imported' = used_items_in_use_item(use_item)
    /\ pc' = "returned"
    /\ UNCHANGED <<use_item, source_file, used_item_map, walker_vars>>

NextExpander == ExpandUseItem

SpecExpander == InitExpander /\ [][NextExpander]_vars

\* -------------------------------------- UsedItemResolver::used_items

\* UsedItemResolver::new
InitResolver ==
    /\ pc = "parse"
    /\ source_file = ParseError
    /\ used_item_map = DefaultMap
    /\ use_item = UseItemNoTree
    /\ imported = NoneVec
    /\ NoWalk

\* Err(_) => return UsedItemMap::default()
ParseFails ==
    /\ pc = "parse"
    /\ source_file' = ParseError
    /\ used_item_map' = DefaultMap
    /\ pc' = "done"
    /\ UNCHANGED <<use_item, imported, walker_vars>>

ParseSucceeds ==
    /\ pc = "parse"
    /\ source_file' = Parsed(<<>>)
    /\ pc' = "items"
    /\ UNCHANGED <<use_item, imported, used_item_map, walker_vars>>

\* filter_map(item_to_use_item) drops an item that is no UseItem.
SkipItem ==
    /\ pc = "items"
    /\ FileSize(source_file.items) < MaxFileSize
    /\ ~item_to_use_item(OtherItem)
    /\ source_file' = Parsed(Append(source_file.items, OtherItem))
    /\ UNCHANGED <<pc, use_item, imported, used_item_map, walker_vars>>

\* The loop body for the next UseItem.
ProcessUseItem ==
    /\ pc = "items"
    /\ \E n \in 1 .. (MaxFileSize - FileSize(source_file.items)) :
         \E item \in FileUseItems[n]
                     \cup (IF n = 1 THEN { UseItemNoTree } ELSE {}) :
            /\ item_to_use_item(item)
            /\ source_file' = Parsed(Append(source_file.items, item))
            /\ use_item' = item
            /\ imported' = used_items_in_use_item(item)
            /\ used_item_map' = UseItemStep(used_item_map, item)
    /\ UNCHANGED <<pc, walker_vars>>

\* items() is exhausted: self.used_item_map is returned.
ReturnMap ==
    /\ pc = "items"
    /\ pc' = "done"
    /\ UNCHANGED <<resolver_vars, walker_vars>>

NextResolver ==
    \/ ParseFails
    \/ ParseSucceeds
    \/ SkipItem
    \/ ProcessUseItem
    \/ ReturnMap

SpecResolver == InitResolver /\ [][NextResolver]_vars

\* ------------------------------------------ list_used_items_in_cargo

\* file_relative_path: the path of a file relative to its source root. The
\* files of one source root have different paths.
Paths == { "src/lib.rs", "src/main.rs" }

\* What parse answers for the files of the walker's inputs.
CargoFiles ==
    { ParseError,
      Parsed(<<>>),
      Parsed(<<UseItem(Leaf(AnswerSome(
                 <<[name |-> 1, kind |-> "STRUCT_DEF"]>>)))>>),
      Parsed(<<UseItem(Group(<<
                 Leaf(AnswerSome(<<[name |-> 2, kind |-> "FN_DEF"]>>)),
                 Leaf(AnswerErr)>>))>>) }

\* A source root: whether package_root.is_member(), and what parse answers
\* for the file at each path the root holds.
SourceRoots ==
    UNION { [is_member : BOOLEAN, files : [paths -> CargoFiles]]
            : paths \in SUBSET Paths }

Projects == [1 .. MaxRoots -> SourceRoots]

\* BTreeMap::insert: the value of an equal key is replaced.
Insert(map, key, value) ==
    [p \in DOMAIN map \cup { key } |-> IF p = key THEN value ELSE map[p]]

file_relative_path(file_id) == file_id.path

\* The body of the inner loop for one file of a source root.
VisitedFile(map, project_, file_id) ==
    Insert(map, file_relative_path(file_id),
           used_items(project_[file_id.root].files[file_id.path]))

InitWalker ==
    /\ pc = "load"
    /\ project \in Projects
    /\ roots_left = {}
    /\ root = 0
    /\ files_left = {}
    /\ crate_map = EmptyCrateMap
    /\ visited = <<>>
    /\ use_item = UseItemNoTree
    /\ imported = NoneVec
    /\ source_file = ParseError
    /\ used_item_map = DefaultMap

\* ra_batch::load_cargo(dir)? fails: the error is returned.
LoadFails ==
    /\ pc = "load"
    /\ pc' = "failed"
    /\ UNCHANGED <<resolver_vars, walker_vars>>

LoadSucceeds ==
    /\ pc = "load"
    /\ roots_left' = DOMAIN project
    /\ crate_map' = EmptyCrateMap
    /\ pc' = "roots"
    /\ UNCHANGED <<resolver_vars, project, root, files_left, visited>>

\* The outer loop yields a source root that is no member: continue.
SkipRoot ==
    /\ pc = "roots"
    /\ \E r \in roots_left :
         /\ ~project[r].is_member
         /\ roots_left' = roots_left \ { r }
    /\ UNCHANGED <<pc, resolver_vars, project, root, files_left, crate_map,
                   visited>>

\* The outer loop yields a member: its files are walked.
WalkRoot ==
    /\ pc = "roots"
    /\ \E r \in roots_left :
         /\ project[r].is_member
         /\ roots_left' = roots_left \ { r }
         /\ root' = r
         /\ files_left' = DOMAIN project[r].files
    /\ pc' = "files"
    /\ UNCHANGED <<resolver_vars, project, crate_map, visited>>

\* The inner loop yields a file: its UsedItemMap is inserted at its path.
VisitFile ==
    /\ pc = "files"
    /\ \E path \in files_left :
         LET file_id == [root |-> root, path |-> path]
         IN  /\ crate_map' = VisitedFile(crate_map, project, file_id)
             /\ visited' = Append(visited, file_id)
             /\ files_left' = files_left \ { path }
    /\ UNCHANGED <<pc, resolver_vars, project, roots_left, root>>

\* walk() is exhausted: back to the outer loop.
LeaveRoot ==
    /\ pc = "files"
    /\ files_left = {}
    /\ pc' = "roots"
    /\ UNCHANGED <<resolver_vars, walker_vars>>

\* The outer loop is exhausted: Ok(map).
ReturnCrateMap ==
    /\ pc = "roots"
    /\ roots_left = {}
    /\ pc' = "returned_map"
    /\ UNCHANGED <<resolver_vars, walker_vars>>

NextWalker ==
    \/ LoadFails
    \/ LoadSucceeds
    \/ SkipRoot
    \/ WalkRoot
    \/ VisitFile
    \/ LeaveRoot
    \/ ReturnCrateMap

Spec == InitWalker /\ [][NextWalker]_vars

\* ---------------------------------------------- claims on the expander

\* The navigation targets of the leaves of a tree that resolved, from left to
\* right as written.
RECURSIVE ResolvedTargets(_)
RECURSIVE ResolvedTargetsOfAll(_)
ResolvedTargetsOfAll(use_trees) ==
    IF use_trees = <<>> THEN <<>>
    ELSE ResolvedTargets(Head(use_trees)) \o ResolvedTargetsOfAll(Tail(use_trees))

ResolvedTargets(use_tree) ==
    IF use_tree.is_list THEN ResolvedTargetsOfAll(use_tree.trees)
    ELSE IF use_tree.def.tag = "Some" THEN use_tree.def.info
    ELSE <<>>

\* What a child of a list contributes: the sequence returned for it, or
\* nothing when it has no result.
Contribution(use_tree) ==
    LET r == used_items_in_use_tree(use_tree)
    IN  IF r.some THEN r.v ELSE <<>>

RECURSIVE Contributions(_)
Contributions(use_trees) ==
    IF use_trees = <<>> THEN <<>>
    ELSE Contribution(Head(use_trees)) \o Contributions(Tail(use_trees))

Returned == pc = "returned"

\* C6, as stated: used_items_in_use_item returns None only for a declaration
\* with no use tree; for every declaration with a tree it returns a sequence.
C6_NoneOnlyWithoutTree ==
    Returned =>
        /\ ~imported.some => ~use_item.has_tree
        /\ use_item.has_tree => imported.some

\* C6, amended: used_items_in_use_item returns None exactly when the
\* declaration has no use tree or its tree is a single leaf path for which
\* goto_definition gives an error or no result; for a declaration whose tree
\* is a list it returns a sequence, which may be empty.
C6_NoneWithoutTreeOrUnresolvedLeaf ==
    Returned =>
        /\ ~imported.some <=>
             \/ ~use_item.has_tree
             \/ /\ ~use_item.tree.is_list
                /\ use_item.tree.def.tag \in { "Err", "None" }
        /\ use_item.has_tree /\ use_item.tree.is_list => imported.some

C6_Witness ==
    /\ Returned
    /\ use_item.has_tree
    /\ ~use_item.tree.is_list
    /\ use_item.tree.def.tag = "Err"
    /\ ~imported.some

\* The kind the claim gives each declaration category.
ClaimedKind(syntax_kind) ==
    IF syntax_kind = "SOURCE_FILE" THEN "Module"
    ELSE IF syntax_kind = "TRAIT_DEF" THEN "Trait"
    ELSE IF syntax_kind = "STRUCT_DEF" THEN "Struct"
    ELSE IF syntax_kind = "ENUM_DEF" THEN "Enum"
    ELSE IF syntax_kind = "FN_DEF" THEN "Fn"
    ELSE IF syntax_kind = "CONST_DEF" THEN "Const"
    ELSE IF syntax_kind = "MACRO_CALL" THEN "Macro"
    ELSE "Other"

\* C9: every item the expander returns has one of the eight kinds, and the
\* item made from a navigation target has the target's name and the kind the
\* claim gives the target's category: Module, Trait, Struct, Enum, Fn, Const,
\* Macro for the seven mapped categories, Other for every other one.
C9_KindClosure ==
    Returned =>
        /\ \A i \in 1 .. Len(imported.v) : imported.v[i].kind \in UsedItemKind
        /\ use_item.has_tree /\ ~use_item.tree.is_list
           /\ use_item.tree.def.tag = "Some" =>
             /\ imported.some
             /\ Len(imported.v) = Len(use_item.tree.def.info)
             /\ \A i \in 1 .. Len(imported.v) :
                  /\ imported.v[i].name = use_item.tree.def.info[i].name
                  /\ imported.v[i].kind =
                       ClaimedKind(use_item.tree.def.info[i].kind)

C9_Witness ==
    /\ Returned
    /\ use_item.has_tree
    /\ ~use_item.tree.is_list
    /\ use_item.tree.def.tag = "Some"
    /\ Len(imported.v) = 2
    /\ use_item.tree.def.info[1].kind = "MODULE"
    /\ imported.v[1].kind = "Other"
    /\ use_item.tree.def.info[2].kind = "STRUCT_DEF"
    /\ imported.v[2].kind = "Struct"

\* C10: for a list, used_items_in_use_tree returns the concatenation, in
\* child order, of what it returns for the children, a child with no result
\* contributing nothing; so the result holds, left to right, one item for
\* every target of every leaf that resolved, and an empty list yields the
\* empty sequence.
C10_OrderedExpansion ==
    Returned /\ use_item.has_tree /\ use_item.tree.is_list =>
        /\ imported.some
        /\ imported.v = Contributions(use_item.tree.trees)
        /\ LET targets == ResolvedTargets(use_item.tree)
           IN  /\ Len(imported.v) = Len(targets)
               /\ \A i \in 1 .. Len(targets) :
                    /\ imported.v[i].name = targets[i].name
                    /\ imported.v[i].kind = ClaimedKind(targets[i].kind)
        /\ use_item.tree.trees = <<>> => imported.v = <<>>

C10_Witness ==
    /\ Returned
    /\ use_item.has_tree
    /\ use_item.tree.is_list
    /\ Len(use_item.tree.trees) = 2
    /\ ~use_item.tree.trees[1].is_list
    /\ use_item.tree.trees[1].def.tag = "None"
    /\ ~use_item.tree.trees[2].is_list
    /\ Len(use_item.tree.trees[2].def.info) = 2
    /\ use_item.tree.trees[2].def.info[1] # use_item.tree.trees[2].def.info[2]
    /\ Len(imported.v) = 2

\* -------------------------------------------- claims on the accumulator

Done == pc = "done"

\* The kind of the items each set of a UsedItemMap is for.
KindOfField(field) ==
    IF field = "modules" THEN "Module"
    ELSE IF field = "traits" THEN "Trait"
    ELSE IF field = "structs" THEN "Struct"
    ELSE IF field = "enums" THEN "Enum"
    ELSE IF field = "fns" THEN "Fn"
    ELSE IF field = "consts" THEN "Const"
    ELSE IF field = "macros" THEN "Macro"
    ELSE "Other"

Elements(set) == { set[i] : i \in 1 .. Len(set) }

\* How many times a set holds an item.
Occurrences(set, item) == Cardinality({ i \in 1 .. Len(set) : set[i] = item })

\* The items of a kind a UsedItemMap holds, as a set.
ItemsOfKind(map, kind) ==
    UNION { Elements(map[f]) : f \in { g \in Fields : KindOfField(g) = kind } }

\* The items the leaves of the use items of a file resolve to.
RECURSIVE ResolvedItems(_)
ResolvedItems(items) ==
    IF items = <<>> THEN {}
    ELSE (IF Head(items).is_use /\ Head(items).has_tree
          THEN LET targets == ResolvedTargets(Head(items).tree)
               IN  { [name |-> targets[i].name,
                      kind |-> ClaimedKind(targets[i].kind)]
                     : i \in 1 .. Len(targets) }
          ELSE {})
         \cup ResolvedItems(Tail(items))

\* A file with every use item whose tree is a list replaced by one use item
\* for each tree of the list, in order.
RECURSIVE TreesAsItems(_)
TreesAsItems(use_trees) ==
    IF use_trees = <<>> THEN <<>>
    ELSE <<UseItem(Head(use_trees))>> \o TreesAsItems(Tail(use_trees))

RECURSIVE SplitLists(_)
SplitLists(items) ==
    IF items = <<>> THEN <<>>
    ELSE (IF Head(items).is_use /\ Head(items).has_tree
             /\ Head(items).tree.is_list
          THEN TreesAsItems(Head(items).tree.trees)
          ELSE <<Head(items)>>)
         \o SplitLists(Tail(items))

\* A file with every use item replaced by one use item for each leaf of its
\* tree, in order.
RECURSIVE LeavesOf(_)
RECURSIVE LeavesOfAll(_)
LeavesOfAll(use_trees) ==
    IF use_trees = <<>> THEN <<>>
    ELSE LeavesOf(Head(use_trees)) \o LeavesOfAll(Tail(use_trees))

LeavesOf(use_tree) ==
    IF use_tree.is_list THEN LeavesOfAll(use_tree.trees) ELSE <<use_tree>>

RECURSIVE SplitToLeaves(_)
SplitToLeaves(items) ==
    IF items = <<>> THEN <<>>
    ELSE (IF Head(items).is_use /\ Head(items).has_tree
          THEN TreesAsItems(LeavesOf(Head(items).tree))
          ELSE <<Head(items)>>)
         \o SplitToLeaves(Tail(items))

\* C1: the UsedItemMap of a file is the one of the file with every list
\* declaration replaced by separate declarations of the list's trees, and the
\* one of the file with one declaration for every leaf, to any depth: for
\* each kind, the union of what each leaf resolves to.
C1_GroupDistributes ==
    Done /\ source_file.ok =>
        /\ used_item_map = used_items(Parsed(SplitLists(source_file.items)))
        /\ used_item_map = used_items(Parsed(SplitToLeaves(source_file.items)))
        /\ \A kind \in UsedItemKind :
             ItemsOfKind(used_item_map, kind) =
                { item \in ResolvedItems(SplitToLeaves(source_file.items)) :
                    item.kind = kind }

C1_Witness ==
    /\ Done
    /\ Len(source_file.items) = 1
    /\ source_file.items[1].has_tree
    /\ source_file.items[1].tree.is_list
    /\ Len(source_file.items[1].tree.trees) = 2
    /\ Len(ResolvedTargets(source_file.items[1].tree.trees[1])) = 1
    /\ Len(ResolvedTargets(source_file.items[1].tree.trees[2])) = 1
    /\ Cardinality(ResolvedItems(source_file.items)) = 2
    /\ used_item_map = used_items(Parsed(SplitLists(source_file.items)))

\* C2: a leaf for which goto_definition gives an error or no result adds
\* nothing, and the file's UsedItemMap holds, under its kind, every item
\* that any other leaf of any use item of the file resolved to: the map
\* holds exactly the items of the leaves that resolved.
C2_UnresolvedLeafTolerated ==
    Done /\ source_file.ok =>
        \A kind \in UsedItemKind :
            ItemsOfKind(used_item_map, kind) =
                { item \in ResolvedItems(source_file.items) : item.kind = kind }

C2_Witness ==
    /\ Done
    /\ Len(source_file.items) = 1
    /\ source_file.items[1].has_tree
    /\ source_file.items[1].tree.is_list
    /\ Len(source_file.items[1].tree.trees) = 2
    /\ ~source_file.items[1].tree.trees[1].is_list
    /\ source_file.items[1].tree.trees[1].def.tag = "Err"
    /\ ~source_file.items[1].tree.trees[2].is_list
    /\ source_file.items[1].tree.trees[2].def.tag = "Some"
    /\ Len(source_file.items[1].tree.trees[2].def.info) = 1
    /\ Len(used_item_map.structs) = 1

\* C7: while a file is accumulated and in the map returned, every item in
\* the set for a kind has that kind.
C7_KindPartition ==
    \A field \in Fields :
        \A i \in 1 .. Len(used_item_map[field]) :
            used_item_map[field][i].kind = KindOfField(field)

C7_Witness ==
    /\ Done
    /\ Len(used_item_map.structs) = 2
    /\ Len(used_item_map.fns) = 1

\* C8: each set of the UsedItemMap holds an item once, however many times it
\* was resolved, and adding an item that a set holds changes nothing.
C8_Dedup ==
    /\ \A field \in Fields :
         \A i, j \in 1 .. Len(used_item_map[field]) :
            used_item_map[field][i] = used_item_map[field][j] => i = j
    /\ \A item \in ResolvedItems(source_file.items) :
         \A field \in Fields :
            KindOfField(field) = item.kind =>
                /\ Occurrences(used_item_map[field], item) = 1
                /\ add_imported_items(used_item_map, <<item>>) = used_item_map

C8_Witness ==
    /\ Done
    /\ Len(source_file.items) = 2
    /\ source_file.items[1].has_tree
    /\ ~source_file.items[1].tree.is_list
    /\ source_file.items[2].has_tree
    /\ source_file.items[2].tree.is_list
    /\ Cardinality(ResolvedItems(<<source_file.items[1]>>)) = 1
    /\ ResolvedItems(<<source_file.items[2]>>)
         = ResolvedItems(<<source_file.items[1]>>)
    /\ Len(used_item_map.fns) = 1
    /\ Len(used_item_map.structs) = 0

\* ------------------------------------------------ claims on the walker

ReturnedMap == pc = "returned_map"

\* The files of the member packages of a project.
MemberFiles(project_) ==
    { file_id \in [root : DOMAIN project_, path : Paths] :
        /\ project_[file_id.root].is_member
        /\ file_id.path \in DOMAIN project_[file_id.root].files }

\* The UsedItemMap computed for a file.
MapOfFile(project_, file_id) ==
    used_items(project_[file_id.root].files[file_id.path])

\* C3, as stated: the CrateMap returned holds, for every file of every member
\* package, at the file's relative path, the UsedItemMap computed for that
\* file, and every entry it holds is the one of a file of a member package.
C3_WalkerCoverage ==
    ReturnedMap =>
        /\ \A file_id \in MemberFiles(project) :
             /\ file_relative_path(file_id) \in DOMAIN crate_map
             /\ crate_map[file_relative_path(file_id)]
                  = MapOfFile(project, file_id)
        /\ \A path \in DOMAIN crate_map :
             \E file_id \in MemberFiles(project) :
                /\ file_relative_path(file_id) = path
                /\ crate_map[path] = MapOfFile(project, file_id)

\* The CrateMap of the run that visits the source roots in ascending order.
RECURSIVE WalkFiles(_, _, _, _)
WalkFiles(map, project_, r, paths) ==
    IF paths = {} THEN map
    ELSE LET path == CHOOSE p \in paths : TRUE
         IN  WalkFiles(VisitedFile(map, project_, [root |-> r, path |-> path]),
                       project_, r, paths \ { path })

RECURSIVE WalkRoots(_, _, _)
WalkRoots(map, project_, r) ==
    IF r \notin DOMAIN project_ THEN map
    ELSE WalkRoots(IF project_[r].is_member
                   THEN WalkFiles(map, project_, r, DOMAIN project_[r].files)
                   ELSE map,
                   project_, r + 1)

\* C4, as stated: whatever order the walker visits the source roots and
\* their files in, the CrateMap returned is the one of any other run over
\* the same project, here the run that visits the roots in ascending order.
C4_Deterministic ==
    ReturnedMap => crate_map = WalkRoots(EmptyCrateMap, project, 1)

\* The CrateMap of the visits in `files`, in their order.
RECURSIVE Replay(_, _, _)
Replay(map, project_, files) ==
    IF files = <<>> THEN map
    ELSE Replay(VisitedFile(map, project_, Head(files)), project_, Tail(files))

\* A project with what parse answers for one file replaced.
WithFile(project_, file_id, parse) ==
    [project_ EXCEPT ![file_id.root].files[file_id.path] = parse]

\* C5, as stated: the entry of a member file that fails to parse is the empty
\* UsedItemMap, and the entries of the other member files are the ones of
\* the same run with the file parsed.
C5_ParseFailureDegrades ==
    ReturnedMap =>
        \A failed \in MemberFiles(project) :
            ~project[failed.root].files[failed.path].ok =>
                /\ crate_map[file_relative_path(failed)] = DefaultMap
                /\ \A parse \in CargoFiles \ { ParseError } :
                     \A other \in MemberFiles(project) \ { failed } :
                        crate_map[file_relative_path(other)] =
                            Replay(EmptyCrateMap,
                                   WithFile(project, failed, parse),
                                   visited)[file_relative_path(other)]

====
